---- MODULE Spec2Model ----
(***************************************************************************)
(* Smart Personal Expense Categorizer: the prediction engine.              *)
(*                                                                         *)
(* One process runs one entry point: the API module                        *)
(* (src/app/backend/api.py), a script that constructs an ExpensePredictor  *)
(* (src/models/predict.py), or the trainer, a script that constructs an    *)
(* ExpenseClassifier (src/models/train.py).  The model artifact on disk is *)
(* present, absent or corrupt.  After startup a predictor process serves   *)
(* single predictions and batches, one at a time or as calls of predict    *)
(* whose statements interleave; the trainer runs train_full_pipeline or    *)
(* the methods of the classifier one by one.                               *)
(*                                                                         *)
(* Text is a sequence of one-character strings.  Amounts are in hundredths *)
(* of a currency unit, confidences and probabilities in hundredths of 1.0. *)
(***************************************************************************)
EXTENDS Integers, Sequences, FiniteSets, TLC

VARIABLES
    entry,       \* "api" | "predictor" | "trainer": the entry point this process runs
    artifact,    \* what is stored at model_path: "absent" | "corrupt" | "good" (a
                 \* pipeline pickled earlier) | "pickled None" | the name of the
                 \* candidate whose pipeline this trainer pickled
    state,       \* "Uninitialized" | "Loading" | "ModelReady" | "FallbackReady" | "Crashed"
    model,       \* the model reference: "None" | "pipeline"
    req,         \* the last single transaction handed to predict (or NoTx)
    scored,      \* what the pipeline did in the last predict call
    resp,        \* what the last predict call gave back to its caller
    batch,       \* the transactions of the batch request being served
    results,     \* predict_batch's local list `results`
    bscored,     \* what the pipeline did for each item of the batch so far
    bpc,         \* position of predict_batch: "idle" | "loop" | "done"
    bresp,       \* what the last predict_batch call gave back to its caller
    dataset,     \* what data/raw/transactions.csv holds (trainer)
    tpc,         \* position of train_full_pipeline: "idle" (not running), the
                 \* step it is about to call, "done" or "failed"
    terror,      \* the exception the last call of the trainer raised, or ""
    selected,    \* self.model of the classifier: "None" or the name of a candidate
    scores,      \* the training accuracies of the last completed train_models
    artifact0,   \* what was stored at model_path when train_full_pipeline began
    calls        \* the predict calls that run concurrently: for each its position
                 \* "idle" | "extracted" | "returned" and its locals

vars == <<entry, artifact, state, model, req, scored, resp,
          batch, results, bscored, bpc, bresp,
          dataset, tpc, terror, selected, scores, artifact0, calls>>

(***************************************************************************)
(* Bounds of the model.                                                    *)
(***************************************************************************)
\* descriptions are concatenations of at most MaxWords fragments
MaxWords == 2
\* a batch request holds at most MaxBatch transactions
MaxBatch == 3
\* at most MaxCalls calls of predict run at the same time
MaxCalls == 2

(***************************************************************************)
(* Units of the fixed-point representation of the code's floats.           *)
(***************************************************************************)
\* amount: float, counted in hundredths (cents)
CentsPerUnit == 100
\* confidence: float in [0,1], counted in hundredths
ConfidenceScale == 100

(***************************************************************************)
(* Text.                                                                   *)
(***************************************************************************)
UpperChars == <<"A","B","C","D","E","F","G","H","I","J","K","L","M",
                "N","O","P","Q","R","S","T","U","V","W","X","Y","Z">>
LowerChars == <<"a","b","c","d","e","f","g","h","i","j","k","l","m",
                "n","o","p","q","r","s","t","u","v","w","x","y","z">>
DigitChars == {"0","1","2","3","4","5","6","7","8","9"}

\* str.lower() on one character
LowerChar(c) ==
    IF \E i \in 1..Len(UpperChars) : UpperChars[i] = c
    THEN LowerChars[CHOOSE i \in 1..Len(UpperChars) : UpperChars[i] = c]
    ELSE c

\* str.lower()
Lower(s) == [i \in 1..Len(s) |-> LowerChar(s[i])]

\* `w in s` for strings: w occurs as a contiguous substring of s
Contains(s, w) ==
    \E i \in 0..(Len(s) - Len(w)) : SubSeq(s, i + 1, i + Len(w)) = w

\* any(word in description for word in words)
AnyWordIn(words, description) == \E w \in words : Contains(description, w)

(***************************************************************************)
(* The keyword lists of fallback_categorization, in the order of its       *)
(* if/elif chain.                                                          *)
(***************************************************************************)
TransportWords ==
    { <<"u","b","e","r">>, <<"t","a","x","i">>, <<"l","y","f","t">>,
      <<"b","u","s">>, <<"m","e","t","r","o">>, <<"t","r","a","i","n">> }
FoodWords ==
    { <<"s","t","a","r","b","u","c","k","s">>, <<"m","c","d","o","n","a","l","d","s">>,
      <<"r","e","s","t","a","u","r","a","n","t">>, <<"f","o","o","d">>,
      <<"c","o","f","f","e","e">>, <<"l","u","n","c","h">>, <<"d","i","n","n","e","r">> }
ShoppingWords ==
    { <<"a","m","a","z","o","n">>, <<"w","a","l","m","a","r","t">>,
      <<"t","a","r","g","e","t">>, <<"s","h","o","p">>, <<"s","t","o","r","e">>,
      <<"b","e","s","t"," ","b","u","y">> }
EntertainmentWords ==
    { <<"n","e","t","f","l","i","x">>, <<"s","p","o","t","i","f","y">>,
      <<"c","i","n","e","m","a">>, <<"m","o","v","i","e">>,
      <<"t","h","e","a","t","e","r">> }
UtilitiesWords ==
    { <<"e","l","e","c","t","r","i","c">>, <<"w","a","t","e","r">>,
      <<"i","n","t","e","r","n","e","t">>, <<"p","h","o","n","e">>,
      <<"b","i","l","l">>, <<"u","t","i","l","i","t","y">> }

\* `amount >= 1000`, in cents
IncomeThreshold == 100000
\* `return category, 0.7`, in hundredths
FallbackConfidence == 70

\* a variant of fallback_categorization that tests the Food rule before the
\* Transport rule
fallback_categorization_FoodFirst(description, amount) ==
    LET d == Lower(description)
        category ==
            IF AnyWordIn(FoodWords, d) THEN "Food"
            ELSE IF AnyWordIn(TransportWords, d) THEN "Transport"
            ELSE IF AnyWordIn(ShoppingWords, d) THEN "Shopping"
            ELSE IF AnyWordIn(EntertainmentWords, d) THEN "Entertainment"
            ELSE IF AnyWordIn(UtilitiesWords, d) THEN "Utilities"
            ELSE IF amount >= IncomeThreshold THEN "Income"
            ELSE "Other"
    IN  [exc |-> FALSE, category |-> category, confidence |-> FallbackConfidence]

\* a variant of fallback_categorization that tests the amount before the keywords
fallback_categorization_AmountFirst(description, amount) ==
    LET d == Lower(description)
        category ==
            IF amount >= IncomeThreshold THEN "Income"
            ELSE IF AnyWordIn(TransportWords, d) THEN "Transport"
            ELSE IF AnyWordIn(FoodWords, d) THEN "Food"
            ELSE IF AnyWordIn(ShoppingWords, d) THEN "Shopping"
            ELSE IF AnyWordIn(EntertainmentWords, d) THEN "Entertainment"
            ELSE IF AnyWordIn(UtilitiesWords, d) THEN "Utilities"
            ELSE "Other"
    IN  [exc |-> FALSE, category |-> category, confidence |-> FallbackConfidence]

\* a variant of fallback_categorization that reads the first character of the
\* description (an IndexError on the empty string)
fallback_categorization_FirstChar(description, amount) ==
    LET d == Lower(description)
        category ==
            IF AnyWordIn(TransportWords, d) THEN "Transport"
            ELSE IF AnyWordIn(FoodWords, d) THEN "Food"
            ELSE IF AnyWordIn(ShoppingWords, d) THEN "Shopping"
            ELSE IF AnyWordIn(EntertainmentWords, d) THEN "Entertainment"
            ELSE IF AnyWordIn(UtilitiesWords, d) THEN "Utilities"
            ELSE IF amount >= IncomeThreshold THEN "Income"
            ELSE "Other"
    IN  IF Len(description) = 0
        THEN [exc |-> TRUE, category |-> "", confidence |-> 0]
        ELSE [exc |-> FALSE, category |-> category, confidence |-> FallbackConfidence]

\* a variant of fallback_categorization whose confidence depends on the rule
fallback_categorization_RuleConfidence(description, amount) ==
    LET d == Lower(description)
        category ==
            IF AnyWordIn(TransportWords, d) THEN "Transport"
            ELSE IF AnyWordIn(FoodWords, d) THEN "Food"
            ELSE IF AnyWordIn(ShoppingWords, d) THEN "Shopping"
            ELSE IF AnyWordIn(EntertainmentWords, d) THEN "Entertainment"
            ELSE IF AnyWordIn(UtilitiesWords, d) THEN "Utilities"
            ELSE IF amount >= IncomeThreshold THEN "Income"
            ELSE "Other"
    IN  [exc |-> FALSE, category |-> category,
         confidence |-> IF category \in {"Income", "Other"} THEN 30 ELSE FallbackConfidence]

\* fallback_categorization(description, amount) -> (category, confidence);
\* exc tells whether the call raised
fallback_categorization(description, amount) ==
    LET d == Lower(description)
        category ==
            IF AnyWordIn(TransportWords, d) THEN "Transport"
            ELSE IF AnyWordIn(FoodWords, d) THEN "Food"
            ELSE IF AnyWordIn(ShoppingWords, d) THEN "Shopping"
            ELSE IF AnyWordIn(EntertainmentWords, d) THEN "Entertainment"
            ELSE IF AnyWordIn(UtilitiesWords, d) THEN "Utilities"
            ELSE IF amount >= IncomeThreshold THEN "Income"
            ELSE "Other"
    IN  [exc |-> FALSE, category |-> category, confidence |-> FallbackConfidence]

(***************************************************************************)
(* Inputs: descriptions, amounts, dates, transactions.                     *)
(***************************************************************************)
Fragments ==
    { <<"U","B","E","R">>, <<"C","o","f","f","e","e">>, <<"s","h","o","p">>,
      <<"M","o","v">>, <<"i","e">>, <<"b","i","l","l">>, <<" ","7">> }

RECURSIVE Concats(_)
Concats(n) ==
    IF n = 0 THEN { <<>> }
    ELSE LET shorter == Concats(n - 1)
         IN  shorter \cup { d \o f : d \in shorter, f \in Fragments }

\* "UBER RIDE #1234"
Scenario1 == <<"U","B","E","R"," ","R","I","D","E"," ","#","1","2","3","4">>
\* "STARBUCKS COFFEE"
Scenario2 == <<"S","T","A","R","B","U","C","K","S"," ","C","O","F","F","E","E">>
\* "UNKNOWN MERCHANT XYZ"
Scenario3 == <<"U","N","K","N","O","W","N"," ","M","E","R","C","H","A","N","T"," ","X","Y","Z">>

Descriptions == Concats(MaxWords) \cup {Scenario1, Scenario2, Scenario3}
\* with a pipeline loaded the description only reaches the pipeline and the
\* echo: fewer descriptions are drawn
ModelDescriptions == Concats(1) \cup {Scenario1, Scenario2, Scenario3}

\* amounts in cents: negative, zero, just below, at and above the threshold,
\* and the amounts of the scenarios (24.50, 5.75, 1500.00)
Amounts == {-500, 0, 99999, 100000}
ScenarioAmounts == {2450, 575, 150000}

\* a calendar date as the extractor reads it: month 1..12, weekday 0 = Monday
NoDate == [kind |-> "none", text |-> <<>>, month |-> 0, weekday |-> 0]
\* a date given as a string
StrDate(text) == [kind |-> "str", text |-> text, month |-> 0, weekday |-> 0]
\* 2024-03-17 in the form the generator writes, and strings not in that form:
\* another order, fields without leading zeros, a day the month does not have
IsoDate == StrDate(<<"2","0","2","4","-","0","3","-","1","7">>)
BadDate == StrDate(<<"1","7","/","0","3","/","2","0","2","4">>)
ShortDate == StrDate(<<"2","0","2","4","-","3","-","7">>)
NoSuchDay == StrDate(<<"2","0","2","3","-","0","2","-","2","9">>)
\* an already parsed datetime object (only a Python caller can pass one):
\* datetime(2024, 3, 17), a Sunday; text is its strftime('%Y-%m-%d')
ParsedDate == [kind |-> "datetime", text |-> IsoDate.text, month |-> 3, weekday |-> 6]

\* the clock: the values datetime.now() may give
Clock == { [month |-> 11, weekday |-> 4], [month |-> 12, weekday |-> 0] }
\* the clock is not read
NoClock == [month |-> 0, weekday |-> 0]

\* class Transaction(BaseModel): description: str, amount: float, date: Optional[str]
ApiDates == {NoDate, IsoDate, BadDate, ShortDate, NoSuchDay}
\* without a model predict never reads the date: fewer dates are drawn
FallbackDates == {NoDate, BadDate}
\* the dicts handed to ExpensePredictor.predict_batch: transaction.get('date')
PredictorDates == {NoDate, ParsedDate, IsoDate, BadDate}

Tx(d, a, dt) == [description |-> d, amount |-> a, date |-> dt]
NoTx == Tx(<<>>, 0, [kind |-> "unset", text |-> <<>>, month |-> 0, weekday |-> 0])

ScenarioTxs ==
    { Tx(Scenario1, 2450, NoDate), Tx(Scenario2, 575, NoDate), Tx(Scenario3, 150000, NoDate) }

Transactions(e, m) ==
    { Tx(d, a, dt) : d \in (IF m = "None" THEN Descriptions ELSE ModelDescriptions),
                     a \in Amounts,
                     dt \in (IF e = "predictor" THEN PredictorDates
                             ELSE IF m = "None" THEN FallbackDates ELSE ApiDates) }
    \cup ScenarioTxs

\* the transactions batches are built from
BatchTxs(e) ==
    ScenarioTxs \cup
    { Tx(<<"s","h","o","p">>, -500, IF e = "api" THEN BadDate ELSE IsoDate) }

RECURSIVE SeqsUpTo(_, _)
SeqsUpTo(S, n) ==
    IF n = 0 THEN { <<>> }
    ELSE LET shorter == SeqsUpTo(S, n - 1)
         IN  shorter \cup { Append(b, t) : b \in shorter, t \in S }

Batches(e) == SeqsUpTo(BatchTxs(e), MaxBatch)

(***************************************************************************)
(* The loaded pipeline.  It is an opaque scikit-learn object: a call       *)
(* either raises or yields one probability per class, in the order of its  *)
(* classes_ attribute (the sorted labels of the training data).            *)
(***************************************************************************)
\* the labels the generator writes, as np.unique sorts them
ModelClasses ==
    <<"Entertainment", "Food", "Healthcare", "Income", "Other",
      "Shopping", "Transport", "Utilities">>

\* self.categories of ExpensePredictor
categories ==
    <<"Food", "Transport", "Shopping", "Entertainment",
      "Utilities", "Healthcare", "Income", "Other">>

Throw == <<"raise">>

\* all the mass on class i, or share a on class i and the rest on the next class
Peak(i, a) ==
    LET n == Len(ModelClasses)
        j == (i % n) + 1
    IN  [k \in 1..n |-> IF k = i THEN a ELSE IF k = j THEN ConfidenceScale - a ELSE 0]

Shares == {ConfidenceScale, 60, 50}

ProbVectors == { Peak(i, a) : i \in 1..Len(ModelClasses), a \in Shares }

\* what model.predict / model.predict_proba may do on one row
PipelineOutcomes == {Throw} \cup ProbVectors
\* the outcomes drawn for the items of a batch
BatchOutcomes == {Throw, Peak(2, 60), Peak(7, ConfidenceScale)}

\* np.max(probabilities)
NpMax(p) == CHOOSE v \in {p[k] : k \in 1..Len(p)} : \A k \in 1..Len(p) : p[k] <= v
\* np.argmax(probabilities): the first index holding the maximum
NpArgMax(p) == CHOOSE i \in 1..Len(p) :
    /\ p[i] = NpMax(p)
    /\ \A k \in 1..(i - 1) : p[k] < p[i]

\* model.predict(X)[0]: the class of the largest probability
ModelPredict(p) == ModelClasses[NpArgMax(p)]

(***************************************************************************)
(* Feature extraction.                                                     *)
(***************************************************************************)
\* the keyword vocabulary of the has_<keyword> features
FeatureKeywords ==
    << <<"u","b","e","r">>, <<"a","m","a","z","o","n">>, <<"n","e","t","f","l","i","x">>,
       <<"s","t","a","r","b","u","c","k","s">>, <<"m","c","d","o","n","a","l","d","s">>,
       <<"w","a","l","m","a","r","t">>, <<"t","a","r","g","e","t">>, <<"g","a","s">>,
       <<"g","r","o","c","e","r","i","e","s">>, <<"r","e","s","t","a","u","r","a","n","t">> >>

\* len(description.split()): the number of maximal runs of non-blank characters
WordCount(s) ==
    Cardinality({ i \in 1..Len(s) : s[i] # " " /\ (i = 1 \/ s[i - 1] = " ") })

\* int(bool(any(char.isdigit() for char in description)))
HasDigits(s) == IF \E i \in 1..Len(s) : s[i] \in DigitChars THEN 1 ELSE 0

\* np.log1p(float(amount)): nan below -1, -inf at -1 (a warning, no exception),
\* and otherwise a finite value that is one-to-one in the amount
Log1p(amount) ==
    IF amount < -CentsPerUnit THEN <<"nan">>
    ELSE IF amount = -CentsPerUnit THEN <<"-inf">>
    ELSE <<"log1p", amount>>

Digits == <<"0", "1", "2", "3", "4", "5", "6", "7", "8", "9">>
DigitValue(c) == (CHOOSE k \in 1..Len(Digits) : Digits[k] = c) - 1

RECURSIVE Number(_)
\* int(s) of a field the pattern matched: a blank before a digit counts as nothing
Number(s) ==
    IF s = <<>> THEN 0
    ELSE LET front == Number(SubSeq(s, 1, Len(s) - 1))
             last == s[Len(s)]
         IN  IF last \in DigitChars THEN front * 10 + DigitValue(last) ELSE front

\* the pattern of %m: 1[0-2] | 0[1-9] | [1-9]
MonthField(s) ==
    \/ Len(s) = 2 /\ s[1] = "1" /\ s[2] \in {"0", "1", "2"}
    \/ Len(s) = 2 /\ s[1] = "0" /\ s[2] \in DigitChars \ {"0"}
    \/ Len(s) = 1 /\ s[1] \in DigitChars \ {"0"}

\* the pattern of %d: 3[01] | [12]\d | 0[1-9] | [1-9] | blank [1-9]
DayField(s) ==
    \/ Len(s) = 2 /\ s[1] = "3" /\ s[2] \in {"0", "1"}
    \/ Len(s) = 2 /\ s[1] \in {"1", "2"} /\ s[2] \in DigitChars
    \/ Len(s) = 2 /\ s[1] \in {"0", " "} /\ s[2] \in DigitChars \ {"0"}
    \/ Len(s) = 1 /\ s[1] \in DigitChars \ {"0"}

IsLeap(y) == y % 4 = 0 /\ (y % 100 # 0 \/ y % 400 = 0)

DaysInMonth(y, m) ==
    IF m = 2 THEN (IF IsLeap(y) THEN 29 ELSE 28)
    ELSE IF m \in {4, 6, 9, 11} THEN 30 ELSE 31

\* date.toordinal(): the number of the day, 0001-01-01 being day 1
ToOrdinal(y, m, d) ==
    LET before_month == <<0, 31, 59, 90, 120, 151, 181, 212, 243, 273, 304, 334>>
        before_year == (y - 1) * 365 + ((y - 1) \div 4) - ((y - 1) \div 100) + ((y - 1) \div 400)
    IN  before_year + before_month[m] + (IF m > 2 /\ IsLeap(y) THEN 1 ELSE 0) + d

\* date.isoweekday(): Monday is 1 and Sunday is 7
IsoWeekday(y, m, d) == ((ToOrdinal(y, m, d) + 6) % 7) + 1

\* date.weekday(): Monday is 0 and Sunday is 6
Weekday(y, m, d) == (ToOrdinal(y, m, d) + 6) % 7

\* Series.dt.dayofweek of pandas: Monday is 0 and Sunday is 6
DayOfWeek(y, m, d) ==
    LET t == <<0, 3, 2, 5, 0, 3, 5, 1, 4, 6, 2, 4>>
        yy == IF m < 3 THEN y - 1 ELSE y
        sunday0 == (yy + (yy \div 4) - (yy \div 100) + (yy \div 400) + t[m] + d) % 7
    IN  (sunday0 + 6) % 7

NoDatetime == [exc |-> TRUE, month |-> 0, weekday |-> 0]

\* datetime.strptime(text, "%Y-%m-%d"): the whole text must match four digits,
\* "-", a month field, "-", a day field, and name a day of the calendar
Strptime(text) ==
    LET n == Len(text)
        cuts == { p \in {7, 8} :
                    /\ n > p /\ n <= p + 2
                    /\ \A i \in 1..4 : text[i] \in DigitChars
                    /\ text[5] = "-" /\ text[p] = "-"
                    /\ MonthField(SubSeq(text, 6, p - 1))
                    /\ DayField(SubSeq(text, p + 1, n)) }
    IN  IF cuts = {} THEN NoDatetime
        ELSE LET p == CHOOSE c \in cuts : TRUE
                 y == Number(SubSeq(text, 1, 4))
                 m == Number(SubSeq(text, 6, p - 1))
                 d == Number(SubSeq(text, p + 1, n))
             IN  IF y < 1 \/ d > DaysInMonth(y, m) THEN NoDatetime
                 ELSE [exc |-> FALSE, month |-> m, weekday |-> Weekday(y, m, d)]

\* the feature dict both extractors build
FeatureDict(description, amount, month, weekday) ==
    LET desc_lower == Lower(description)
    IN  [description |-> desc_lower,
         amount |-> amount,
         description_length |-> Len(description),
         word_count |-> WordCount(description),
         has_digits |-> HasDigits(description),
         amount_log |-> Log1p(amount),
         month |-> month,
         day_of_week |-> weekday,
         has_keyword |-> [k \in 1..Len(FeatureKeywords) |->
                             IF Contains(desc_lower, FeatureKeywords[k]) THEN 1 ELSE 0]]

\* a variant that reads the clock whatever the date is
preprocess_for_prediction_AlwaysNow(description, amount, date, now) ==
    [exc |-> FALSE, X |-> FeatureDict(description, amount, now.month, now.weekday)]

\* preprocess_for_prediction(description, amount, date) of the API
preprocess_for_prediction(description, amount, date, now) ==
    LET parsed == Strptime(date.text)
        d == IF date.kind = "none" THEN now
             ELSE IF parsed.exc THEN now
             ELSE [month |-> parsed.month, weekday |-> parsed.weekday]
    IN  [exc |-> FALSE, X |-> FeatureDict(description, amount, d.month, d.weekday)]

\* ExpensePredictor.preprocess_input(description, amount, date): a date that is
\* a str has no attribute month (AttributeError)
preprocess_input(description, amount, date, now) ==
    LET d == IF date.kind = "none" THEN now
             ELSE [month |-> date.month, weekday |-> date.weekday]
        features == FeatureDict(description, amount, d.month, d.weekday)
    IN  IF date.kind = "str"
        THEN [exc |-> TRUE, X |-> FeatureDict(<<>>, 0, 0, 0)]
        ELSE [exc |-> FALSE,
              X |-> [f \in DOMAIN features \cup {"payment_method"} |->
                        IF f = "payment_method" THEN <<"Unknown">> ELSE features[f]]]

(***************************************************************************)
(* The features of the training data (train.py).                           *)
(***************************************************************************)
\* the keyword vocabulary of load_data
keywords ==
    << <<"u","b","e","r">>, <<"a","m","a","z","o","n">>, <<"n","e","t","f","l","i","x">>,
       <<"s","t","a","r","b","u","c","k","s">>, <<"m","c","d","o","n","a","l","d","s">>,
       <<"w","a","l","m","a","r","t">>, <<"t","a","r","g","e","t">>, <<"g","a","s">>,
       <<"g","r","o","c","e","r","i","e","s">>, <<"r","e","s","t","a","u","r","a","n","t">> >>

\* a date in the form the generator writes: strftime('%Y-%m-%d'), ten
\* characters with every field zero-padded, naming a day of the calendar
StrftimeForm(text) ==
    /\ Len(text) = 10
    /\ \A i \in {1, 2, 3, 4, 6, 7, 9, 10} : text[i] \in DigitChars
    /\ text[5] = "-" /\ text[8] = "-"
    /\ Number(SubSeq(text, 1, 4)) >= 1
    /\ Number(SubSeq(text, 6, 7)) \in 1..12
    /\ Number(SubSeq(text, 9, 10)) \in
            1..DaysInMonth(Number(SubSeq(text, 1, 4)), Number(SubSeq(text, 6, 7)))

\* pd.to_datetime on the date column, then .dt.month and .dt.dayofweek; the
\* column holds dates in the generator's form
ToDatetime(text) ==
    IF ~StrftimeForm(text) THEN NoDatetime
    ELSE LET y == Number(SubSeq(text, 1, 4))
             m == Number(SubSeq(text, 6, 7))
             d == Number(SubSeq(text, 9, 10))
         IN  [exc |-> FALSE, month |-> m, weekday |-> DayOfWeek(y, m, d)]

\* load_data: the engineered row of one line of the csv file, less the
\* columns category, date and user_id that prepare_features drops
load_data(description, amount, text) ==
    LET lowered == Lower(description)
        date == ToDatetime(text)
    IN  [exc |-> date.exc,
         X |-> [description |-> lowered,
                amount |-> amount,
                payment_method |-> <<"csv">>,
                description_length |-> Len(lowered),
                word_count |-> WordCount(lowered),
                has_digits |-> HasDigits(lowered),
                amount_log |-> Log1p(amount),
                month |-> date.month,
                day_of_week |-> date.weekday,
                has_keyword |-> [k \in 1..Len(keywords) |->
                                    IF Contains(lowered, keywords[k]) THEN 1 ELSE 0]]]

\* prepare_features: the columns the ColumnTransformer selects
text_features == {"description"}
numeric_features ==
    {"amount", "description_length", "word_count", "has_digits", "amount_log",
     "month", "day_of_week", "has_keyword"}

(***************************************************************************)
(* predict.                                                                *)
(***************************************************************************)
EmptyMap == [c \in {} |-> 0]

\* a result object: the keys it has and their values
Dict(keys, category, confidence, description, amount, probs, error) ==
    [keys |-> keys, category |-> category, confidence |-> confidence,
     description |-> description, amount |-> amount,
     all_probabilities |-> probs, error |-> error]

NoDict == Dict({}, "", 0, <<>>, 0, EmptyMap, "")

\* what a call gives its caller: nothing yet, a returned value, or an exception
NoCall == [kind |-> "none", status |-> 0, value |-> NoDict]
Return(v) == [kind |-> "return", status |-> 0, value |-> v]
\* raise HTTPException(status_code=400, detail=str(e))
HTTPException400 == [kind |-> "HTTPException", status |-> 400, value |-> NoDict]

\* PredictionResponse(category, confidence, description, amount)
PredictionResponse(category, confidence, description, amount) ==
    Dict({"category", "confidence", "description", "amount"},
         category, confidence, description, amount, EmptyMap, "")

\* the readings of the clock during predict of the API: datetime.now() is
\* called when a model is loaded and the date is missing or does not parse
ApiNow(m, t) ==
    IF m # "None" /\ (t.date.kind = "none" \/ Strptime(t.date.text).exc)
    THEN Clock ELSE {NoClock}

\* the readings of the clock during ExpensePredictor.predict
PredictorNow(t) == IF t.date.kind = "none" THEN Clock ELSE {NoClock}

\* what the pipeline is observed to do in a predict call: it is not reached
\* when there is no model or the extractor raised
NotScored == <<"not called">>

\* the pipeline acts only when one is loaded
ApiOutcomes(m, outs) == IF m = "None" THEN {NotScored} ELSE outs

ApiScored(m, t, out) == IF m = "None" THEN NotScored ELSE out

\* async def predict(transaction) of the API
ApiPredict(m, t, out, now) ==
    IF m = "None"
    THEN LET fb == fallback_categorization(t.description, t.amount)
         IN  IF fb.exc THEN HTTPException400
             ELSE Return(PredictionResponse(fb.category, fb.confidence,
                                            t.description, t.amount))
    ELSE LET pre == preprocess_for_prediction(t.description, t.amount, t.date, now)
         IN  IF pre.exc \/ out = Throw THEN HTTPException400
             ELSE Return(PredictionResponse(ModelPredict(out), NpMax(out),
                                            t.description, t.amount))

\* {cat: prob for cat, prob in zip(self.categories, probabilities)}
ZipCategories(p) ==
    LET n == IF Len(categories) < Len(p) THEN Len(categories) ELSE Len(p)
    IN  [c \in {categories[i] : i \in 1..n} |->
            p[CHOOSE i \in 1..n : categories[i] = c]]

PredictorScored(t, out, now) ==
    IF preprocess_input(t.description, t.amount, t.date, now).exc THEN NotScored ELSE out

\* a variant of the except branch that labels the failed item "Unknown"
ErrorDict_Unknown(error) ==
    Dict({"category", "confidence", "error"}, "Unknown", 0, <<>>, 0, EmptyMap, error)

\* the dict the except branch of ExpensePredictor.predict returns
ErrorDict(error) ==
    Dict({"category", "confidence", "error"}, "Other", 0, <<>>, 0, EmptyMap, error)

\* ExpensePredictor.predict(description, amount, date)
PredictorPredict(t, out, now) ==
    LET pre == preprocess_input(t.description, t.amount, t.date, now)
    IN  IF pre.exc THEN Return(ErrorDict("AttributeError"))
        ELSE IF out = Throw THEN Return(ErrorDict("pipeline"))
        ELSE Return(Dict({"category", "confidence", "all_probabilities",
                          "description", "amount"},
                         ModelPredict(out), NpMax(out), t.description, t.amount,
                         ZipCategories(out), ""))

(***************************************************************************)
(* Startup.                                                                *)
(***************************************************************************)
\* a call of predict that is not running: no locals
NoThread ==
    [pc |-> "idle", tx |-> NoTx, now |-> NoClock, scored |-> NotScored, resp |-> NoCall]

\* the contents data/raw/transactions.csv may have: no file, a header without
\* rows, rows with a category that has a single example, rows with enough
\* examples of every category
Datasets == {"missing", "empty", "underrepresented", "trainable"}

\* self.model = None in ExpenseClassifier.__init__; nothing scored yet
NoScores == <<>>

Init ==
    /\ entry \in {"api", "predictor", "trainer"}
    /\ artifact \in {"absent", "corrupt", "good"}
    /\ dataset \in (IF entry = "trainer" THEN Datasets ELSE {"missing"})
    /\ tpc = "idle"
    /\ terror = ""
    /\ selected = "None"
    /\ scores = NoScores
    /\ artifact0 = artifact
    /\ calls = [i \in 1..MaxCalls |-> NoThread]
    /\ state = "Uninitialized"
    /\ model = "unbound"
    /\ req = NoTx
    /\ scored = NotScored
    /\ resp = NoCall
    /\ batch = <<>>
    /\ results = <<>>
    /\ bscored = <<>>
    /\ bpc = "idle"
    /\ bresp = [kind |-> "none", status |-> 0, predictions |-> <<>>,
                insights |-> EmptyMap, model_used |-> ""]

serving == <<req, scored, resp, batch, results, bscored, bpc, bresp, calls>>
training == <<dataset, tpc, terror, selected, scores, artifact0>>

\* the API module starts executing (model = None), or ExpensePredictor() is called
BeginLoad ==
    /\ entry \in {"api", "predictor"}
    /\ state = "Uninitialized"
    /\ state' = "Loading"
    /\ model' = IF entry = "api" THEN "None" ELSE model
    /\ UNCHANGED <<entry, artifact, serving, training>>

\* the state the API module is in after its try/except around joblib.load
ApiLoaded == IF artifact = "good" THEN "ModelReady" ELSE "FallbackReady"

\* the API module: os.path.exists, joblib.load, except Exception
ApiLoad ==
    /\ entry = "api"
    /\ state = "Loading"
    /\ state' = ApiLoaded
    /\ model' = IF artifact = "good" THEN "pipeline" ELSE "None"
    /\ UNCHANGED <<entry, artifact, serving, training>>

\* the state ExpensePredictor.__init__ ends in: joblib.load raises on a missing
\* or unreadable file and nothing catches it
PredictorLoaded == IF artifact = "good" THEN "ModelReady" ELSE "Crashed"

\* ExpensePredictor.__init__: self.model = joblib.load(model_path)
PredictorLoad ==
    /\ entry = "predictor"
    /\ state = "Loading"
    /\ state' = PredictorLoaded
    /\ model' = IF artifact = "good" THEN "pipeline" ELSE model
    /\ UNCHANGED <<entry, artifact, serving, training>>

(***************************************************************************)
(* Serving.                                                                *)
(***************************************************************************)
\* a variant in which requests are served from the start of the process
CanServe_BeforeLoad == entry \in {"api", "predictor"}

\* requests are served once the module is loaded / the object is constructed
CanServe ==
    \/ entry = "api" /\ state \in {"ModelReady", "FallbackReady"}
    \/ entry = "predictor" /\ state = "ModelReady"

NoBatch ==
    [kind |-> "none", status |-> 0, predictions |-> <<>>, insights |-> EmptyMap,
     model_used |-> ""]

\* no request is being served and no response is waiting for its caller
Idle ==
    /\ resp.kind = "none" /\ bpc = "idle"
    /\ \A i \in 1..MaxCalls : calls[i].pc = "idle"

\* POST /predict
ApiPredictCall ==
    /\ entry = "api"
    /\ CanServe
    /\ Idle
    /\ \E t \in Transactions("api", model), out \in ApiOutcomes(model, PipelineOutcomes) :
       \E now \in ApiNow(model, t) :
        /\ req' = t
        /\ scored' = ApiScored(model, t, out)
        /\ resp' = ApiPredict(model, t, out, now)
    /\ UNCHANGED <<batch, results, bscored, bpc, bresp>>
    /\ UNCHANGED <<entry, artifact, state, model, training, calls>>

\* predictor.predict(description, amount, date)
PredictorPredictCall ==
    /\ entry = "predictor"
    /\ CanServe
    /\ Idle
    /\ \E t \in Transactions("predictor", model), out \in PipelineOutcomes :
       \E now \in PredictorNow(t) :
        /\ req' = t
        /\ scored' = PredictorScored(t, out, now)
        /\ resp' = PredictorPredict(t, out, now)
    /\ UNCHANGED <<batch, results, bscored, bpc, bresp>>
    /\ UNCHANGED <<entry, artifact, state, model, training, calls>>

\* predict_batch is entered: results = []
BatchBegin ==
    /\ CanServe
    /\ Idle
    /\ \E b \in Batches(entry) : batch' = b
    /\ results' = <<>>
    /\ bscored' = <<>>
    /\ bpc' = "loop"
    /\ UNCHANGED <<entry, artifact, state, model, req, scored, resp, bresp, training, calls>>

\* a variant of the append that puts the newest result first
AppendResult_Front(rs, r) == <<r>> \o rs

\* results.append(result)
AppendResult(rs, r) == Append(rs, r)

\* the API's except branch: raise HTTPException(status_code=400, ...)
BatchHTTPException400 ==
    [kind |-> "HTTPException", status |-> 400, predictions |-> <<>>,
     insights |-> EmptyMap, model_used |-> ""]

\* one iteration of the API's loop: result = await predict(transaction);
\* results.append(result.dict()).  An exception of predict leaves the loop
\* through the handler's own except branch.
ApiBatchStep ==
    /\ entry = "api"
    /\ bpc = "loop"
    /\ Len(results) < Len(batch)
    /\ \E out \in ApiOutcomes(model, BatchOutcomes),
          now \in ApiNow(model, batch[Len(results) + 1]) :
        LET t == batch[Len(results) + 1]
            r == ApiPredict(model, t, out, now)
        IN  /\ bscored' = Append(bscored, ApiScored(model, t, out))
            /\ IF r.kind = "return"
               THEN /\ results' = AppendResult(results, r.value)
                    /\ UNCHANGED <<bpc, bresp>>
               ELSE /\ bpc' = "done"
                    /\ bresp' = BatchHTTPException400
                    /\ UNCHANGED results
    /\ UNCHANGED <<entry, artifact, state, model, req, scored, resp, batch, training, calls>>

\* one iteration of ExpensePredictor.predict_batch: results.append(self.predict(...))
PredictorBatchStep ==
    /\ entry = "predictor"
    /\ bpc = "loop"
    /\ Len(results) < Len(batch)
    /\ \E out \in BatchOutcomes, now \in PredictorNow(batch[Len(results) + 1]) :
        LET t == batch[Len(results) + 1]
            r == PredictorPredict(t, out, now)
        IN  /\ bscored' = Append(bscored, PredictorScored(t, out, now))
            /\ results' = AppendResult(results, r.value)
    /\ UNCHANGED <<entry, artifact, state, model, req, scored, resp, batch, bpc, bresp,
                   training, calls>>

\* a variant that reports the model whatever is loaded
ModelUsed_AlwaysModel(m) == "ml_model"

\* "model_used": "ml_model" if model is not None else "fallback"
ModelUsed(m) == IF m # "None" THEN "ml_model" ELSE "fallback"

(***************************************************************************)
(* The insights of a batch.                                                *)
(***************************************************************************)
RECURSIVE SumAmounts_PositiveOnly(_)
\* a variant of the sum that counts only what was spent (positive amounts)
SumAmounts_PositiveOnly(rs) ==
    IF rs = <<>> THEN 0
    ELSE (IF Head(rs).amount > 0 THEN Head(rs).amount ELSE 0)
         + SumAmounts_PositiveOnly(Tail(rs))

RECURSIVE SumAmounts(_)
\* df['amount'].sum()
SumAmounts(rs) ==
    IF rs = <<>> THEN 0 ELSE Head(rs).amount + SumAmounts(Tail(rs))

RECURSIVE SumConfidences(_)
\* the sum df['confidence'].mean() divides
SumConfidences(rs) ==
    IF rs = <<>> THEN 0 ELSE Head(rs).confidence + SumConfidences(Tail(rs))

\* Series.mean(): the sum divided by the count, kept as an exact fraction
Mean(sum, count) == [num |-> sum, den |-> count]

\* df['amount'].max()
MaxAmount(rs) ==
    CHOOSE v \in {rs[i].amount : i \in 1..Len(rs)} :
        \A i \in 1..Len(rs) : rs[i].amount <= v

\* df['amount'].min()
MinAmount(rs) ==
    CHOOSE v \in {rs[i].amount : i \in 1..Len(rs)} :
        \A i \in 1..Len(rs) : v <= rs[i].amount

\* a variant of the counts that has an entry for every known category
CategoryCounts_ZeroFilled(rs) ==
    [c \in {categories[k] : k \in 1..Len(categories)} |->
        Cardinality({i \in 1..Len(rs) : rs[i].category = c})]

\* df['category'].value_counts().to_dict()
CategoryCounts(rs) ==
    [c \in {rs[i].category : i \in 1..Len(rs)} |->
        Cardinality({i \in 1..Len(rs) : rs[i].category = c})]

\* the insights of a list of results that is not empty
InsightsOf(rs) ==
    [total_spent |-> SumAmounts(rs),
     total_transactions |-> Len(rs),
     category_counts |-> CategoryCounts(rs),
     average_confidence |-> Mean(SumConfidences(rs), Len(rs)),
     average_amount |-> Mean(SumAmounts(rs), Len(rs)),
     max_amount |-> MaxAmount(rs),
     min_amount |-> MinAmount(rs)]

\* a variant without the `if results:` test: df['amount'] of an empty
\* DataFrame is a KeyError
Insights_NoEmptyTest(rs) ==
    IF rs # <<>>
    THEN [exc |-> FALSE, value |-> InsightsOf(rs)]
    ELSE [exc |-> TRUE, value |-> EmptyMap]

\* `if results: ... insights = {...} else: insights = {}`
Insights(rs) ==
    IF rs # <<>>
    THEN [exc |-> FALSE, value |-> InsightsOf(rs)]
    ELSE [exc |-> FALSE, value |-> EmptyMap]

\* what predict_batch gives back once its loop is over
BatchResponse(e, m, rs) ==
    IF e = "api"
    THEN IF Insights(rs).exc THEN BatchHTTPException400
         ELSE [kind |-> "return", status |-> 0, predictions |-> rs,
               insights |-> Insights(rs).value, model_used |-> ModelUsed(m)]
    ELSE [kind |-> "return", status |-> 0, predictions |-> rs,
          insights |-> EmptyMap, model_used |-> ""]

\* the loop is over: the handler returns
BatchReturn ==
    /\ bpc = "loop"
    /\ Len(results) = Len(batch)
    /\ bpc' = "done"
    /\ bresp' = BatchResponse(entry, model, results)
    /\ UNCHANGED <<entry, artifact, state, model, req, scored, resp,
                   batch, results, bscored, training, calls>>

\* the response (or the exception) reaches the caller; the locals of the
\* request are gone
Deliver ==
    /\ resp.kind # "none" \/ bpc = "done"
    /\ req' = NoTx /\ scored' = NotScored /\ resp' = NoCall
    /\ batch' = <<>> /\ results' = <<>> /\ bscored' = <<>>
    /\ bpc' = "idle" /\ bresp' = NoBatch
    /\ UNCHANGED <<entry, artifact, state, model, training, calls>>

(***************************************************************************)
(* Concurrent calls of predict.  Each call has its own locals; the model   *)
(* reference is the only thing the calls have in common.  A call reads it  *)
(* when it starts and again when it asks the pipeline for a prediction.    *)
(***************************************************************************)
\* the transactions handed to concurrent calls
ConcurrentTxs(e) ==
    { Tx(Scenario1, 2450, NoDate),
      Tx(<<"s","h","o","p">>, -500, IF e = "api" THEN BadDate ELSE IsoDate) }

\* a variant in which a call whose pipeline raised drops the model
ModelAfterCall_DropOnError(m, out) == IF out = Throw THEN "None" ELSE m

\* the model reference after a statement of predict: predict reads the global
\* model (API) and self.model (ExpensePredictor) and never assigns them
ModelAfterCall(m, out) == m

\* the readings of the clock in a call of predict
CallNow(e, m, t) == IF e = "api" THEN ApiNow(m, t) ELSE PredictorNow(t)

\* the first statements of predict, up to the features: the result when the call
\* ends there (fallback_categorization without a model, the except branch when
\* the extractor raised), NoCall when the features are ready for the pipeline
EnterResult(e, m, t, now) ==
    IF e = "api"
    THEN IF m = "None" THEN ApiPredict(m, t, NotScored, now) ELSE NoCall
    ELSE IF preprocess_input(t.description, t.amount, t.date, now).exc
         THEN PredictorPredict(t, NotScored, now)
         ELSE NoCall

\* model.predict(X), model.predict_proba(X) and the rest of predict; on a
\* reference that is None the attribute lookup raises
ScoreResult(e, m, t, out, now) ==
    IF m = "None"
    THEN (IF e = "api" THEN HTTPException400 ELSE Return(ErrorDict("AttributeError")))
    ELSE IF e = "api" THEN ApiPredict(m, t, out, now)
    ELSE PredictorPredict(t, out, now)

\* call i of predict starts while other calls may be running
CallEnter(i) ==
    /\ CanServe
    /\ resp.kind = "none" /\ bpc = "idle"
    /\ calls[i].pc = "idle"
    /\ \E t \in ConcurrentTxs(entry) : \E now \in CallNow(entry, model, t) :
          LET r == EnterResult(entry, model, t, now)
          IN  calls' = [calls EXCEPT ![i] =
                  [pc |-> IF r = NoCall THEN "extracted" ELSE "returned",
                   tx |-> t, now |-> now, scored |-> NotScored, resp |-> r]]
    /\ UNCHANGED <<entry, artifact, state, model, req, scored, resp,
                   batch, results, bscored, bpc, bresp, training>>

\* call i asks the pipeline and builds its result
CallScore(i) ==
    /\ calls[i].pc = "extracted"
    /\ \E out \in BatchOutcomes :
          LET c == calls[i]
          IN  /\ calls' = [calls EXCEPT ![i] =
                      [pc |-> "returned", tx |-> c.tx, now |-> c.now, scored |-> out,
                       resp |-> ScoreResult(entry, model, c.tx, out, c.now)]]
              /\ model' = ModelAfterCall(model, out)
    /\ UNCHANGED <<entry, artifact, state, req, scored, resp,
                   batch, results, bscored, bpc, bresp, training>>

\* the result of call i reaches its caller
CallExit(i) ==
    /\ calls[i].pc = "returned"
    /\ calls' = [calls EXCEPT ![i] = NoThread]
    /\ UNCHANGED <<entry, artifact, state, model, req, scored, resp,
                   batch, results, bscored, bpc, bresp, training>>

(***************************************************************************)
(* The trainer.  train_full_pipeline calls the five methods in order; each *)
(* method can also be called by itself on the classifier.                  *)
(***************************************************************************)
\* a variant that saves before anything else
Steps_SaveFirst ==
    <<"save_model", "load_data", "prepare_features", "train_models", "evaluate">>

\* the calls of train_full_pipeline, in order
Steps == <<"load_data", "prepare_features", "train_models", "evaluate", "save_model">>

StepAfter(step) ==
    LET i == CHOOSE k \in 1..Len(Steps) : Steps[k] = step
    IN  IF i < Len(Steps) THEN Steps[i + 1] ELSE "done"

\* the keys of the dict `models`, in insertion order
Candidates == <<"logistic_regression", "random_forest", "gradient_boosting">>

\* pipeline.score(X_train, y_train): an accuracy, in hundredths
Scores == {0, 50, ConfidenceScale}

\* pipeline.fit and pipeline.score of one candidate: an exception or a score
FitOutcomes ==
    {[exc |-> TRUE, score |-> 0]} \cup {[exc |-> FALSE, score |-> s] : s \in Scores}

RECURSIVE TrainLoop(_, _, _, _)
\* the loop of train_models from candidate i on
TrainLoop(outs, i, best_model, best_score) ==
    IF i > Len(Candidates)
    THEN [exc |-> FALSE, best_model |-> best_model, best_score |-> best_score]
    ELSE IF outs[i].exc
    THEN [exc |-> TRUE, best_model |-> best_model, best_score |-> best_score]
    ELSE IF outs[i].score > best_score
    THEN TrainLoop(outs, i + 1, Candidates[i], outs[i].score)
    ELSE TrainLoop(outs, i + 1, best_model, best_score)

\* train_models: best_model = None, best_score = 0, then the loop
train_models(outs) == TrainLoop(outs, 1, "None", 0)

\* the method is the next call of train_full_pipeline, or it is called by
\* itself while train_full_pipeline is not running
AtStep(step) == entry = "trainer" /\ (tpc = step \/ tpc = "idle")

\* the method returns to train_full_pipeline, or to its caller
Returns(step) ==
    /\ tpc' = IF tpc = "idle" THEN "idle" ELSE StepAfter(step)
    /\ terror' = ""

\* the method raises: nothing in train.py catches it
Raises(error) ==
    /\ tpc' = IF tpc = "idle" THEN "idle" ELSE "failed"
    /\ terror' = error

\* classifier.train_full_pipeline() is called
TrainFullPipeline ==
    /\ entry = "trainer"
    /\ tpc = "idle"
    /\ tpc' = Steps[1]
    /\ terror' = ""
    /\ artifact0' = artifact
    /\ UNCHANGED <<entry, artifact, state, model, serving, dataset, selected, scores>>

\* load_data: pd.read_csv raises when there is no file, and on a file without
\* a header line; a header without rows gives an empty frame
LoadData ==
    /\ AtStep("load_data")
    /\ \/ dataset = "missing" /\ Raises("FileNotFoundError")
       \/ dataset = "empty" /\ Raises("EmptyDataError")
       \/ dataset # "missing" /\ Returns("load_data")
    /\ UNCHANGED <<entry, artifact, state, model, serving, dataset, selected, scores,
                   artifact0>>

\* prepare_features: `keywords` is a local of load_data, so building
\* numeric_features raises NameError before the preprocessor is created and
\* before the split
PrepareFeatures ==
    /\ AtStep("prepare_features")
    /\ Raises("NameError")
    /\ UNCHANGED <<entry, artifact, state, model, serving, dataset, selected, scores,
                   artifact0>>

\* train_models: self.model is assigned after the loop
TrainModels ==
    /\ AtStep("train_models")
    /\ \E outs \in [1..Len(Candidates) -> FitOutcomes] :
          LET r == train_models(outs)
          IN  IF r.exc
              THEN Raises("fit") /\ UNCHANGED <<selected, scores>>
              ELSE /\ Returns("train_models")
                   /\ selected' = r.best_model
                   /\ scores' = [i \in 1..Len(Candidates) |-> outs[i].score]
    /\ UNCHANGED <<entry, artifact, state, model, serving, dataset, artifact0>>

\* a variant that moves on to the next candidate when the test accuracy is 0
evaluate_Reselect(m, out) ==
    IF m = "None" THEN [exc |-> TRUE, error |-> "AttributeError", model |-> m]
    ELSE IF out.exc THEN [exc |-> TRUE, error |-> "predict", model |-> m]
    ELSE IF out.score = 0
    THEN LET k == CHOOSE j \in 1..Len(Candidates) : Candidates[j] = m
         IN  [exc |-> FALSE, error |-> "", model |-> Candidates[(k % Len(Candidates)) + 1]]
    ELSE [exc |-> FALSE, error |-> "", model |-> m]

\* evaluate(X_test, y_test): self.model.predict raises on self.model None and
\* may raise in the pipeline; otherwise the accuracy and the report are
\* printed.  model is self.model after the call
evaluate(m, out) ==
    IF m = "None" THEN [exc |-> TRUE, error |-> "AttributeError", model |-> m]
    ELSE IF out.exc THEN [exc |-> TRUE, error |-> "predict", model |-> m]
    ELSE [exc |-> FALSE, error |-> "", model |-> m]

\* evaluate: out is what self.model.predict does and the test accuracy
Evaluate ==
    /\ AtStep("evaluate")
    /\ \E out \in FitOutcomes :
          LET r == evaluate(selected, out)
          IN  /\ selected' = r.model
              /\ IF r.exc THEN Raises(r.error) ELSE Returns("evaluate")
    /\ UNCHANGED <<entry, artifact, state, model, serving, dataset, scores, artifact0>>

\* what joblib.dump(self.model, path) leaves at the path: the pickle of None,
\* or of the selected pipeline
Dumped(m) == IF m = "None" THEN "pickled None" ELSE m

\* save_model: joblib.dump, which raises when there is no models directory
SaveModel ==
    /\ AtStep("save_model")
    /\ \/ artifact' = Dumped(selected) /\ Returns("save_model")
       \/ artifact = "absent" /\ Raises("FileNotFoundError") /\ UNCHANGED artifact
    /\ UNCHANGED <<entry, state, model, serving, dataset, selected, scores, artifact0>>

\* train_full_pipeline returned, or its exception reached the caller
TrainerReturn ==
    /\ entry = "trainer"
    /\ tpc \in {"done", "failed"}
    /\ tpc' = "idle"
    /\ terror' = ""
    /\ UNCHANGED <<entry, artifact, state, model, serving, dataset, selected, scores,
                   artifact0>>

Next ==
    \/ BeginLoad
    \/ ApiLoad
    \/ PredictorLoad
    \/ ApiPredictCall
    \/ PredictorPredictCall
    \/ BatchBegin
    \/ ApiBatchStep
    \/ PredictorBatchStep
    \/ BatchReturn
    \/ Deliver
    \/ \E i \in 1..MaxCalls : CallEnter(i)
    \/ \E i \in 1..MaxCalls : CallScore(i)
    \/ \E i \in 1..MaxCalls : CallExit(i)
    \/ TrainFullPipeline
    \/ LoadData
    \/ PrepareFeatures
    \/ TrainModels
    \/ Evaluate
    \/ SaveModel
    \/ TrainerReturn

Spec == Init /\ [][Next]_vars

(***************************************************************************)
(* Properties.                                                             *)
(***************************************************************************)
\* the closed category set
KnownCategories ==
    {"Food", "Transport", "Shopping", "Entertainment",
     "Utilities", "Healthcare", "Income", "Other"}

\* a batch call has returned its response
BatchReturned == bpc = "done" /\ bresp.kind = "return"

\* entry i echoes the description and the amount of transaction t
Echoes(d, t) ==
    /\ {"description", "amount"} \subseteq d.keys
    /\ d.description = t.description
    /\ d.amount = t.amount

\* the category predict computes for t when the pipeline does sc
CategoryFor(t, sc) ==
    IF sc = NotScored /\ entry = "api"
    THEN fallback_categorization(t.description, t.amount).category
    ELSE IF sc \in {NotScored, Throw} THEN "Other"
    ELSE ModelClasses[NpArgMax(sc)]

\* the item did not get an ordinary prediction from ExpensePredictor.predict
PredictorItemFailed(sc) == entry = "predictor" /\ sc \in {NotScored, Throw}

C2_FailureIsolated ==
    bpc = "done" =>
        /\ bresp.kind = "return"
        /\ Len(bresp.predictions) = Len(batch)

\* C3: with a model loaded, a predict call whose pipeline raised returns the
\* result of the fallback rules for that description and amount.
C3_PipelineErrorFallsBack ==
    (state = "ModelReady" /\ scored = Throw) =>
        /\ resp.kind = "return"
        /\ resp.value.category = fallback_categorization(req.description, req.amount).category
        /\ resp.value.confidence = FallbackConfidence

\* C4: startup ends in ModelReady when the artifact loads and in FallbackReady
\* when it is missing or fails to load, for both entry points; it never ends
\* in a crashed predictor.
C4_StartupEndsReady ==
    state \notin {"Uninitialized", "Loading"} =>
        state = (IF artifact = "good" THEN "ModelReady" ELSE "FallbackReady")

\* the API answered a predict call by the fallback path
FallbackAnswered == entry = "api" /\ model = "None" /\ resp.kind # "none"

\* C5: without a model, every predict call returns (it never raises) exactly
\* one category and one confidence, for every description and amount,
\* the empty description and amounts <= 0 included; a batch never fails.
C5_FallbackTotal ==
    /\ FallbackAnswered =>
        /\ resp.kind = "return"
        /\ resp.value.category \in KnownCategories
        /\ resp.value.confidence \in 0..ConfidenceScale
    /\ (entry = "api" /\ model = "None" /\ bpc = "done") =>
        /\ bresp.kind = "return"
        /\ Len(bresp.predictions) = Len(batch)

\* C5 witness: the fallback answered for the empty description and amount 0
C5_Witness ==
    /\ FallbackAnswered
    /\ req.description = <<>>
    /\ req.amount = 0
    /\ resp.kind = "return"

\* the rules in the order the claim gives them
RuleOrder ==
    << [category |-> "Transport", words |-> TransportWords],
       [category |-> "Food", words |-> FoodWords],
       [category |-> "Shopping", words |-> ShoppingWords],
       [category |-> "Entertainment", words |-> EntertainmentWords],
       [category |-> "Utilities", words |-> UtilitiesWords] >>

\* the rules that have a keyword occurring in the lower-cased description
MatchingRules(description) ==
    { i \in 1..Len(RuleOrder) :
        \E w \in RuleOrder[i].words : Contains(Lower(description), w) }

FirstMatchingRule(description) ==
    CHOOSE i \in MatchingRules(description) :
        \A j \in MatchingRules(description) : i <= j

\* C6: the fallback category is that of the first rule, in the order
\* Transport, Food, Shopping, Entertainment, Utilities, with a keyword in the
\* lower-cased description, whatever later rules match and whatever the
\* amount; "UBER RIDE #1234" is Transport and "STARBUCKS COFFEE" is Food.
C6_FirstMatchingRuleWins ==
    (FallbackAnswered /\ resp.kind = "return") =>
        /\ MatchingRules(req.description) # {} =>
            resp.value.category = RuleOrder[FirstMatchingRule(req.description)].category
        /\ req.description = Scenario1 => resp.value.category = "Transport"
        /\ req.description = Scenario2 => resp.value.category = "Food"

\* C6 witness: a description that matches the Food rule first in the text and
\* the Transport rule later, with an amount at the income threshold
C6_Witness ==
    /\ FallbackAnswered
    /\ resp.kind = "return"
    /\ req.description = <<"C","o","f","f","e","e","U","B","E","R">>
    /\ req.amount >= IncomeThreshold
    /\ resp.value.category = "Transport"

\* C7: when no keyword matches, the category is Income iff the amount is at
\* least 1000 and Other otherwise; when a keyword matches, no amount changes
\* the category.
C7_AmountRule ==
    (FallbackAnswered /\ resp.kind = "return") =>
        IF MatchingRules(req.description) = {}
        THEN /\ (resp.value.category = "Income") <=> (req.amount >= 1000 * CentsPerUnit)
             /\ (resp.value.category = "Other") <=> (req.amount < 1000 * CentsPerUnit)
        ELSE /\ resp.value.category \notin {"Income", "Other"}
             /\ \A a \in Amounts \cup ScenarioAmounts :
                    fallback_categorization(req.description, a).category
                        = resp.value.category

\* C7 witness: no keyword and an amount of exactly 1000 gives Income
C7_Witness ==
    /\ FallbackAnswered
    /\ resp.kind = "return"
    /\ MatchingRules(req.description) = {}
    /\ req.amount = 1000 * CentsPerUnit
    /\ resp.value.category = "Income"

\* C8: every fallback result has the same confidence, between 0.5 and 0.7,
\* whatever the description, the amount and the rule that matched.
C8_FixedFallbackConfidence ==
    /\ (FallbackAnswered /\ resp.kind = "return") =>
        /\ resp.value.confidence = FallbackConfidence
        /\ 50 * ConfidenceScale <= 100 * resp.value.confidence
        /\ 100 * resp.value.confidence <= 70 * ConfidenceScale
    /\ (entry = "api" /\ model = "None") =>
        \A i, j \in 1..Len(results) : results[i].confidence = results[j].confidence

\* C8 witness: a fallback batch whose results come from three different rules
C8_Witness ==
    /\ entry = "api" /\ model = "None"
    /\ Len(results) = 3
    /\ Cardinality({results[i].category : i \in 1..3}) = 3
    /\ "Income" \in {results[i].category : i \in 1..3}

\* a result object is within the closed range
InRange(d) ==
    /\ d.category \in KnownCategories
    /\ 0 <= d.confidence /\ d.confidence <= ConfidenceScale

\* C9: every result predict returns, from the model, from the fallback and
\* from an error path, has a category of the closed set and a confidence in
\* [0,1].
C9_ClosedRange ==
    /\ resp.kind = "return" => InRange(resp.value)
    /\ \A i \in 1..Len(results) : InRange(results[i])

\* C9 witness: the error path of ExpensePredictor.predict returned a result
C9_Witness ==
    /\ entry = "predictor"
    /\ scored = Throw
    /\ resp.kind = "return"
    /\ "error" \in resp.value.keys

\* C10: a result of the loaded model has the arg-max class as category, that
\* class's probability as confidence, and a probabilities map that gives every
\* class label its own probability.
C10_ProbabilitiesOfClasses ==
    (resp.kind = "return" /\ "all_probabilities" \in resp.value.keys) =>
        LET d == resp.value
            pm == d.all_probabilities
        IN  /\ d.category = ModelClasses[NpArgMax(scored)]
            /\ d.confidence = scored[NpArgMax(scored)]
            /\ d.category \in DOMAIN pm
            /\ pm[d.category] = d.confidence
            /\ \A c \in DOMAIN pm : pm[c] <= d.confidence
            /\ \A k \in 1..Len(ModelClasses) : pm[ModelClasses[k]] = scored[k]


RECURSIVE TotalOf(_)
\* the sum of the amounts of the transactions of a batch
TotalOf(b) == IF b = <<>> THEN 0 ELSE Head(b).amount + TotalOf(Tail(b))

\* the API returned the response of a batch that is not empty
InsightsReturned == entry = "api" /\ BatchReturned /\ batch # <<>>

RECURSIVE SumValues(_)
\* the sum of the values of a map
SumValues(f) ==
    IF DOMAIN f = {} THEN 0
    ELSE LET k == CHOOSE k \in DOMAIN f : TRUE
         IN  f[k] + SumValues([j \in DOMAIN f \ {k} |-> f[j]])

\* the batch holds each of the three scenario transactions once
ScenarioBatch ==
    Len(batch) = 3 /\ {batch[i] : i \in 1..Len(batch)} = ScenarioTxs

\* C12: the keys of the per-category counts are exactly the categories that
\* occur among the predictions, every count is at least 1, and the counts sum
\* to the number of transactions; the three scenario transactions under
\* fallback give three categories with count 1 each.
C12_CategoryCounts ==
    InsightsReturned =>
        LET counts == bresp.insights.category_counts
            preds == bresp.predictions
        IN  /\ DOMAIN counts = {preds[i].category : i \in 1..Len(preds)}
            /\ \A c \in DOMAIN counts : counts[c] >= 1
            /\ SumValues(counts) = Len(batch)
            /\ (model = "None" /\ ScenarioBatch) =>
                /\ DOMAIN counts = {"Transport", "Food", "Income"}
                /\ \A c \in DOMAIN counts : counts[c] = 1

\* C12 witness: the three scenario transactions were summarized under fallback
C12_Witness ==
    /\ InsightsReturned
    /\ model = "None"
    /\ ScenarioBatch
    /\ Cardinality(DOMAIN bresp.insights.category_counts) = 3

\* s is sorted in descending order of the totals
SortedDescending(s, totals) ==
    \A i, j \in 1..Len(s) : i < j => totals[s[i]] >= totals[s[j]]

\* C13: the summary has per-category amount totals that sum to the overall
\* total, and a top_categories list of categories in descending order of
\* their totals.
C13_CategoryTotalsAndTop ==
    InsightsReturned =>
        LET ins == bresp.insights
        IN  /\ "category_totals" \in DOMAIN ins
            /\ "top_categories" \in DOMAIN ins
            /\ SumValues(ins.category_totals) = ins.total_spent
            /\ \A i \in 1..Len(ins.top_categories) :
                    ins.top_categories[i] \in DOMAIN ins.category_totals
            /\ SortedDescending(ins.top_categories, ins.category_totals)

\* the API finished a batch request that held no transaction
EmptyBatchDone == entry = "api" /\ bpc = "done" /\ batch = <<>>

\* C14 as stated: an empty batch returns a summary whose total amount is 0,
\* whose count is 0 and which has no categories.
C14_ZeroedSummary ==
    EmptyBatchDone =>
        LET ins == bresp.insights
        IN  /\ bresp.kind = "return"
            /\ {"total_spent", "total_transactions", "category_counts"} \subseteq DOMAIN ins
            /\ ins.total_spent = 0
            /\ ins.total_transactions = 0
            /\ DOMAIN ins.category_counts = {}

\* C14 as amended: an empty batch never raises; it returns no predictions and
\* an insights object without any field, with and without a model.
C14_EmptyBatchEmptyInsights ==
    EmptyBatchDone =>
        /\ bresp.kind = "return"
        /\ bresp.predictions = <<>>
        /\ DOMAIN bresp.insights = {}
        /\ bresp.model_used = (IF state = "ModelReady" THEN "ml_model" ELSE "fallback")

\* C14 witness: an empty batch was answered with a model loaded
C14_Witness ==
    /\ EmptyBatchDone
    /\ state = "ModelReady"
    /\ bresp.kind = "return"


\* a single predict call has run the extractor of the entry point on req
Extracted ==
    /\ resp.kind # "none"
    /\ \/ entry = "api" /\ model # "None"
       \/ entry = "predictor"

\* the extractor of the entry point
Extract(t, now) ==
    IF entry = "api"
    THEN preprocess_for_prediction(t.description, t.amount, t.date, now)
    ELSE preprocess_input(t.description, t.amount, t.date, now)

\* no field of the feature record depends on the time of the call
ClockFree(t) == \A now1, now2 \in Clock : Extract(t, now1) = Extract(t, now2)

\* the date is one the extractor of the entry point can read: a string that
\* strptime parses (API), a datetime object (ExpensePredictor)
ReadableDate(t) ==
    IF entry = "api"
    THEN t.date.kind = "str" /\ ~Strptime(t.date.text).exc
    ELSE t.date.kind = "datetime"

\* C15 as stated: with a supplied date, two calls of the extractor at any two
\* processing times return identical feature records.
C15_SuppliedDateDeterministic ==
    (Extracted /\ req.date.kind # "none") => ClockFree(req)

\* C15 as amended: with a supplied date that the extractor can read, two calls
\* at any two processing times return identical feature records; a date string
\* the API cannot parse is replaced by the clock, like a missing date.
C15_ReadableDateDeterministic ==
    Extracted =>
        /\ ReadableDate(req) => ClockFree(req) /\ ~Extract(req, NoClock).exc
        /\ (entry = "api" /\ ~ReadableDate(req)) => ~ClockFree(req)
        /\ (entry = "predictor" /\ req.date.kind = "none") => ~ClockFree(req)

\* C15 witness: the API extracted the features of a transaction whose date
\* string parses
C15_Witness ==
    /\ Extracted /\ entry = "api"
    /\ req.date = ShortDate
    /\ resp.kind = "return"
    /\ ClockFree(req)


\* the features the fitted pipeline reads from a frame
ConsumedFeatures == text_features \cup numeric_features

OrdinaryResult(r) ==
    /\ r.kind = "return"
    /\ "error" \notin r.value.keys
    /\ r.value.category \in KnownCategories

\* C17: predict never returns an ordinary categorized result for a transaction
\* whose amount is zero or negative; it reports an error for that item.
C17_NonPositiveAmountRejected ==
    (resp.kind # "none" /\ req.amount <= 0) => ~OrdinaryResult(resp)

\* C18: a date that cannot be parsed never fails the transaction: predict
\* returns an ordinary categorized result unless the pipeline itself raised.
C18_UnparseableDateDefaultsToNow ==
    (/\ resp.kind # "none"
     /\ req.date.kind = "str"
     /\ Strptime(req.date.text).exc
     /\ scored # Throw) => OrdinaryResult(resp)


\* train_full_pipeline ended with an exception
RunFailed == entry = "trainer" /\ tpc = "failed"

\* C19: a training run on a dataset that is not empty and has enough examples
\* of every category completes and persists the artifact; a run fails only
\* for an empty (or missing) dataset or an under-represented category.
C19_FailsOnlyOnBadData ==
    RunFailed => dataset \in {"missing", "empty", "underrepresented"}

\* C20: a training run writes the artifact only as its last step: while the
\* run is at an earlier step, and when it has failed, the artifact is what it
\* was when the run began.
C20_NoPartialModel ==
    (entry = "trainer" /\ tpc # "idle") =>
        /\ artifact # artifact0 => tpc = "done"
        /\ tpc = "failed" => artifact = artifact0

\* C20 witness: a run on a trainable dataset failed in prepare_features while
\* the classifier held a model of an earlier train_models call
C20_Witness ==
    /\ RunFailed
    /\ terror = "NameError"
    /\ dataset = "trainable"
    /\ selected # "None"
    /\ artifact = artifact0
    /\ artifact = "absent"


\* train_models returned at least once: scores holds the accuracies of the
\* last call that returned
Trained == entry = "trainer" /\ scores # NoScores

\* the position of a candidate in the order of the dict `models`
CandidateIndex(name) == CHOOSE k \in 1..Len(Candidates) : Candidates[k] = name

\* C21: after train_models returns the selected model is one of the fitted
\* candidates (never None), its score is at least the score of every
\* candidate, and among equal best scores the first candidate is kept.
C21_KeepsBest ==
    Trained =>
        /\ selected \in {Candidates[k] : k \in 1..Len(Candidates)}
        /\ LET best == CandidateIndex(selected)
           IN  /\ \A k \in 1..Len(Candidates) : scores[best] >= scores[k]
               /\ \A k \in 1..(best - 1) : scores[k] < scores[best]


\* the candidate train_models keeps for a vector of scores: the first one with
\* the highest score, and none when no score is above 0
Kept(sc) ==
    IF \A k \in 1..Len(Candidates) : sc[k] = 0 THEN "None"
    ELSE Candidates[CHOOSE k \in 1..Len(Candidates) :
                        /\ \A j \in 1..Len(Candidates) : sc[j] <= sc[k]
                        /\ \A j \in 1..(k - 1) : sc[j] < sc[k]]

\* C24: evaluation only reports.  evaluate comes after train_models and before
\* save_model, it leaves the selected model, the scores and the artifact as
\* they are; the selection changes only to what train_models chose from the
\* training scores; and whatever is written to the model path is the selected
\* pipeline.
C24_EvaluationReportsOnly ==
    [][entry = "trainer" =>
        /\ StepAfter("train_models") = "evaluate"
        /\ StepAfter("evaluate") = "save_model"
        /\ Evaluate => (selected' = selected /\ scores' = scores /\ artifact' = artifact)
        /\ selected' # selected => (scores' # NoScores /\ selected' = Kept(scores'))
        /\ artifact' # artifact =>
              /\ selected' = selected
              /\ selected # "None" => artifact' = selected
      ]_vars

\* C24 witness: the second candidate, the first of two with the best score,
\* was selected and its pipeline is what the model path holds
C24_Witness ==
    /\ Trained
    /\ scores = <<50, ConfidenceScale, ConfidenceScale>>
    /\ selected = Candidates[2]
    /\ artifact = selected
    /\ terror = ""


\* loading has completed and requests can be served
Ready == state \in {"ModelReady", "FallbackReady"}

\* C23: loading is a one-time step that ends before any request is served:
\* the state only moves from Uninitialized to Loading and from Loading to its
\* end; every step of a prediction request is taken in ModelReady or
\* FallbackReady; and from then on neither the mode nor the model reference
\* changes.
C23_LoadedOnceBeforeServing ==
    [][(entry = "api" \/ entry = "predictor") =>
        /\ Ready => (state' = state /\ model' = model)
        /\ serving' # serving => (Ready /\ model \in {"pipeline", "None"})
        /\ state' # state =>
              \/ state = "Uninitialized" /\ state' = "Loading"
              \/ state = "Loading" /\ state' \in {"ModelReady", "FallbackReady", "Crashed"}
      ]_vars

\* C23 witness: the API, whose load failed on a corrupt artifact, answered a
\* prediction in FallbackReady
C23_Witness ==
    /\ entry = "api"
    /\ artifact = "corrupt"
    /\ state = "FallbackReady"
    /\ model = "None"
    /\ resp.kind = "return"


\* the categories fallback_categorization can assign
FallbackCategories ==
    {"Transport", "Food", "Shopping", "Entertainment", "Utilities", "Income", "Other"}

\* C25: without a model every category comes from the seven fallback
\* categories, never Healthcare; the model_used flag of a batch is "fallback"
\* exactly when no model is loaded, and then every prediction of the batch is
\* what fallback_categorization gives for its transaction, the pipeline not
\* being called.
C25_FallbackCategoriesAndFlag ==
    /\ (FallbackAnswered /\ state = "FallbackReady" /\ resp.kind = "return") =>
        /\ resp.value.category \in FallbackCategories
        /\ resp.value.category # "Healthcare"
    /\ (entry = "api" /\ BatchReturned) =>
        /\ bresp.model_used \in {"fallback", "ml_model"}
        /\ bresp.model_used = "fallback" <=> model = "None"
        /\ bresp.model_used = "fallback" =>
              \A i \in 1..Len(bresp.predictions) :
                  LET p == bresp.predictions[i]
                      f == fallback_categorization(batch[i].description, batch[i].amount)
                  IN  /\ p.category = f.category
                      /\ p.confidence = f.confidence
                      /\ p.category \in FallbackCategories
                      /\ bscored[i] = NotScored

\* C25 witness: a batch of two was answered without a model, one of its
\* predictions being Shopping
C25_Witness ==
    /\ entry = "api" /\ BatchReturned
    /\ state = "FallbackReady"
    /\ bresp.model_used = "fallback"
    /\ Len(bresp.predictions) = 2
    /\ \E i \in 1..2 : bresp.predictions[i].category = "Shopping"


\* the model reference that loading bound
LoadedModel == IF artifact = "good" THEN "pipeline" ELSE "None"

\* what the call would return if it ran alone, with the same transaction, the
\* same reading of the clock and the same behaviour of the pipeline
RunAlone(c) ==
    IF entry = "api" THEN ApiPredict(LoadedModel, c.tx, c.scored, c.now)
    ELSE PredictorPredict(c.tx, c.scored, c.now)

RECURSIVE SequentialResults(_)
\* the list a sequential loop over the first k calls builds
SequentialResults(k) ==
    IF k = 0 THEN <<>>
    ELSE AppendResult(SequentialResults(k - 1), RunAlone(calls[k]).value)

\* every concurrent call has returned a value
AllReturned ==
    \A i \in 1..MaxCalls : calls[i].pc = "returned" /\ calls[i].resp.kind = "return"

\* C22: concurrent calls of predict need no lock.  No statement of a call
\* changes the model reference or the mode; under every interleaving a call
\* returns what it would return alone; and when every call returns a value the
\* results of the concurrent calls are the list a sequential loop over the
\* same transactions builds.
C22_ConcurrentCallsIndependent ==
    (entry = "api" \/ entry = "predictor") =>
        /\ Ready => model = LoadedModel
        /\ \A i \in 1..MaxCalls :
              calls[i].pc = "returned" => calls[i].resp = RunAlone(calls[i])
        /\ AllReturned =>
              [i \in 1..MaxCalls |-> calls[i].resp.value] = SequentialResults(MaxCalls)

\* C22 witness: with a model loaded, one call has returned after its pipeline
\* raised while another call, started meanwhile, still holds its features
C22_Witness ==
    /\ model = "pipeline"
    /\ \E i, j \in 1..MaxCalls :
          /\ calls[i].pc = "returned" /\ calls[i].scored = Throw
          /\ calls[j].pc = "extracted"
          /\ calls[i].tx # calls[j].tx

====
